---- MODULE Spec2Model ----
(***************************************************************************)
(* Coupon management backend: the coupon store (CouponService), the        *)
(* discount engine (DiscountCalculator) and the request handlers of        *)
(* app/routers/coupons.py.                                                 *)
(*                                                                         *)
(* Decimal amounts are integers counting steps of 1/Unit of the currency   *)
(* unit (Unit = 200: steps of 0.005), so that prices below one cent and    *)
(* exact rounding ties are representable.  A Decimal that is a quotient is *)
(* carried as numerator and denominator until it is quantized.             *)
(* An optional value (a dict key that may be missing, a nullable column)   *)
(* is <<>> when missing and <<v>> when present.                            *)
(***************************************************************************)
EXTENDS Integers, Sequences, FiniteSets, TLC

\* ------------------------------------------------------------ bounds
MaxLines == 2
MaxQty == 2
MaxCoupons == 2
MaxReq == 2
MaxTime == 1
MaxRedeem == 2

\* ------------------------------------------------------------ decimals
Unit == 200
Cent == 2

Min(a, b) == IF a <= b THEN a ELSE b

Has(opt) == Len(opt) > 0
Get(opt, default) == IF Len(opt) > 0 THEN opt[1] ELSE default

RECURSIVE Pow10(_)
Pow10(k) == IF k <= 0 THEN 1 ELSE 10 * Pow10(k - 1)

\* x.quantize(Decimal('0.01'), rounding=ROUND_HALF_UP) of x = n/d steps (d > 0):
\* the nearest whole number of cents, a tie going away from zero.
round2(n, d) ==
    LET m == IF n < 0 THEN -n ELSE n
        q == m \div (d * Cent)
        r == m % (d * Cent)
        c == Cent * (q + (IF 2 * r >= d * Cent THEN 1 ELSE 0))
    IN  IF n < 0 THEN -c ELSE c

\* The context precision: a Decimal quotient or product keeps 28 significant
\* digits (ROUND_HALF_EVEN).
Prec == 28

\* least k >= 0 with a * 10^k >= b  (a > 0)
RECURSIVE LeadShift(_, _, _)
LeadShift(a, b, k) == IF a * Pow10(k) >= b THEN k ELSE LeadShift(a, b, k + 1)

\* floor(log10(num / den))  (num, den > 0)
RECURSIVE Log10Up(_, _, _)
Log10Up(num, den, j) ==
    IF num >= den * Pow10(j + 1) THEN Log10Up(num, den, j + 1) ELSE j
Exp10(num, den) ==
    IF num >= den THEN Log10Up(num, den, 0) ELSE -LeadShift(num, den, 0)

\* the remainder of the long division a / b after `steps` further digits
RECURSIVE DivRem(_, _, _)
DivRem(r, b, steps) == IF steps = 0 THEN r ELSE DivRem((10 * r) % b, b, steps - 1)

\* round2(total_discount * proportion), proportion = a / b computed to Prec
\* significant digits and the product again.  The two roundings matter only
\* when the exact product is a rounding tie and the quotient a / b was cut
\* below its value: the product then falls under the tie and rounds down,
\* unless rounding the product to Prec digits restores the tie.
round2_share(td, a, b) ==
    IF b <= 0 \/ td = 0 \/ a = 0 THEN 0
    ELSE
    LET exact == round2(td * a, b)
        ep    == -LeadShift(a, b, 0)
        R     == DivRem(a % b, b, (Prec - 1) - ep)
    IN  IF R = 0 THEN exact
        ELSE
        LET tie == /\ (2 * td * a) % (Cent * b) = 0
                   /\ ((2 * td * a) \div (Cent * b)) % 2 = 1
        IN  IF ~tie \/ 2 * R > b THEN exact
            ELSE
            LET dlt == ep - Exp10(td * a, Unit * b)
                lhs == 2 * td * R * Pow10(dlt)
                rhs == Unit * b * Pow10(-dlt)
            IN  IF lhs <= rhs THEN exact ELSE exact - Cent

\* ------------------------------------------------------------ engine
\* app/services/discount_calculator.py.  A cart is a sequence of line items
\* [product_id, quantity, price]; details is the coupon's JSON payload.

RECURSIVE calculate_cart_total(_)
calculate_cart_total(cart) ==
    IF cart = <<>> THEN 0
    ELSE cart[1].quantity * cart[1].price + calculate_cart_total(Tail(cart))

\* variant: a fixed amount granted in full, not capped at the cart total
calculate_cart_wise_discount_uncapped(cart, details) ==
    LET cart_total    == calculate_cart_total(cart)
        threshold     == Get(details.threshold, 0)
        discount      == Get(details.discount, 0)
        discount_type == Get(details.discount_type, "percentage")
    IN  IF cart_total < threshold THEN 0
        ELSE IF discount_type = "percentage"
             THEN round2(cart_total * discount, 100 * Unit)
             ELSE round2(discount, 1)

calculate_cart_wise_discount(cart, details) ==
    LET cart_total    == calculate_cart_total(cart)
        threshold     == Get(details.threshold, 0)
        discount      == Get(details.discount, 0)
        discount_type == Get(details.discount_type, "percentage")
    IN  IF cart_total < threshold THEN 0
        ELSE IF discount_type = "percentage"
             THEN round2(cart_total * discount, 100 * Unit)
             ELSE Min(round2(discount, 1), cart_total)

\* next((it for it in cart.items if it.product_id == product_id), None):
\* the index of the first line of the product, 0 when there is none
FirstLine(cart, product_id) ==
    IF \E i \in 1..Len(cart) : cart[i].product_id = product_id
    THEN CHOOSE i \in 1..Len(cart) :
            /\ cart[i].product_id = product_id
            /\ \A j \in 1..(i - 1) : cart[j].product_id # product_id
    ELSE 0

calculate_product_wise_discount(cart, details) ==
    LET product_id    == Get(details.product_id, 0)
        discount      == Get(details.discount, 0)
        discount_type == Get(details.discount_type, "percentage")
        t             == FirstLine(cart, product_id)
    IN  IF t = 0 THEN 0
        ELSE
        LET product_total == cart[t].quantity * cart[t].price
        IN  IF discount_type = "percentage"
            THEN round2(product_total * discount, 100 * Unit)
            ELSE Min(round2(discount, 1), product_total)

\* {item.product_id: item for item in cart.items}: a later line of the same
\* product replaces an earlier one.  The index of the line kept, 0 when none.
LastLine(cart, product_id) ==
    IF \E i \in 1..Len(cart) : cart[i].product_id = product_id
    THEN CHOOSE i \in 1..Len(cart) :
            /\ cart[i].product_id = product_id
            /\ \A j \in (i + 1)..Len(cart) : cart[j].product_id # product_id
    ELSE 0

\* the loop over buy_products: [required, present]
RECURSIVE BuyQuantities(_, _)
BuyQuantities(cart, buy_products) ==
    IF buy_products = <<>> THEN [required |-> 0, present |-> 0]
    ELSE
    LET rest == BuyQuantities(cart, Tail(buy_products))
        l    == LastLine(cart, buy_products[1].product_id)
    IN  [required |-> buy_products[1].quantity + rest.required,
         present  |-> (IF l # 0 THEN cart[l].quantity ELSE 0) + rest.present]

\* A dict {product_id: quantity} in insertion order, as a sequence of entries.
DictHas(dict, k) == \E i \in 1..Len(dict) : dict[i].product_id = k
DictGet(dict, k) == dict[CHOOSE i \in 1..Len(dict) : dict[i].product_id = k].quantity
DictSet(dict, k, v) ==
    IF DictHas(dict, k)
    THEN [i \in 1..Len(dict) |->
            IF dict[i].product_id = k THEN [product_id |-> k, quantity |-> v] ELSE dict[i]]
    ELSE Append(dict, [product_id |-> k, quantity |-> v])

times_applicable(cart, details) ==
    LET b == BuyQuantities(cart, Get(details.buy_products, <<>>))
    IN  Min(b.present \div b.required, Get(details.repetition_limit, 1))

\* the loop over get_products, from the state acc = [discount, free_items]
RECURSIVE GetLoop(_, _, _, _)
GetLoop(cart, get_products, times, acc) ==
    IF get_products = <<>> THEN acc
    ELSE
    LET product_id          == get_products[1].product_id
        total_free_quantity == get_products[1].quantity * times
        l                   == LastLine(cart, product_id)
        item_price          == IF l # 0 THEN cart[l].price ELSE 0
        next == IF total_free_quantity > 0
                THEN [discount   |-> acc.discount + total_free_quantity * item_price,
                      free_items |-> DictSet(acc.free_items, product_id, total_free_quantity)]
                ELSE acc
    IN  GetLoop(cart, Tail(get_products), times, next)

calculate_bxgy_discount(cart, details) ==
    LET b == BuyQuantities(cart, Get(details.buy_products, <<>>))
    IN  IF b.required = 0 THEN [discount |-> 0, free_items |-> <<>>]
        ELSE
        LET r == GetLoop(cart, Get(details.get_products, <<>>),
                         times_applicable(cart, details),
                         [discount |-> 0, free_items |-> <<>>])
        IN  [discount |-> round2(r.discount, 1), free_items |-> r.free_items]

is_coupon_applicable(cart, type, details) ==
    IF type = "cart-wise"
    THEN calculate_cart_total(cart) >= Get(details.threshold, 0)
    ELSE IF type = "product-wise"
    THEN \E i \in 1..Len(cart) : cart[i].product_id = Get(details.product_id, 0)
    ELSE IF type = "bxgy"
    THEN LET b == BuyQuantities(cart, Get(details.buy_products, <<>>))
         IN  b.required > 0 /\ b.present >= b.required
    ELSE FALSE

calculate_discount(cart, type, details) ==
    IF ~is_coupon_applicable(cart, type, details) THEN 0
    ELSE IF type = "cart-wise" THEN calculate_cart_wise_discount(cart, details)
    ELSE IF type = "product-wise" THEN calculate_product_wise_discount(cart, details)
    ELSE IF type = "bxgy" THEN calculate_bxgy_discount(cart, details).discount
    ELSE 0

\* ------------------------------------------------------------ cart rewriter
\* apply_coupon of app/routers/coupons.py, from the coupon row c it read.

Line(product_id, quantity, price, total_discount) ==
    [product_id |-> product_id, quantity |-> quantity, price |-> price,
     total_discount |-> total_discount]

\* routers/coupons.py 84-100: proportional shares, the last line takes the rest
RECURSIVE CartWiseItems(_, _, _, _, _)
CartWiseItems(cart, idx, running, subtotal, total_discount) ==
    IF idx > Len(cart) THEN <<>>
    ELSE
    LET item      == cart[idx]
        item_disc == IF idx < Len(cart)
                     THEN round2_share(total_discount, item.quantity * item.price, subtotal)
                     ELSE round2(total_discount - running, 1)
    IN  <<Line(item.product_id, item.quantity, item.price, item_disc)>>
        \o CartWiseItems(cart, idx + 1,
                         IF idx < Len(cart) THEN running + item_disc ELSE running,
                         subtotal, total_discount)

\* routers/coupons.py 103-118
ProductWiseItems(cart, details, total_discount) ==
    [i \in 1..Len(cart) |->
        LET item          == cart[i]
            product_total == item.quantity * item.price
            item_disc     == IF <<item.product_id>> = details.product_id
                             THEN (IF total_discount > product_total
                                   THEN product_total ELSE total_discount)
                             ELSE 0
        IN  Line(item.product_id, item.quantity, item.price, round2(item_disc, 1))]

\* routers/coupons.py 140-143: the lines appended for free_additions, the free
\* products that are no line of the cart
RECURSIVE FreeAdditions(_, _)
FreeAdditions(cart, free_items) ==
    IF free_items = <<>> THEN <<>>
    ELSE (IF LastLine(cart, free_items[1].product_id) = 0
          THEN <<Line(free_items[1].product_id, free_items[1].quantity, 0, 0)>>
          ELSE <<>>)
         \o FreeAdditions(cart, Tail(free_items))

\* variant: the free units of a product already in the cart are not merged
\* into its line
BxgyItems_unmerged(cart, free_items) ==
    [i \in 1..Len(cart) |->
        LET item == cart[i]
            free == DictHas(free_items, item.product_id)
            disc == IF free THEN DictGet(free_items, item.product_id) * item.price ELSE 0
        IN  Line(item.product_id, item.quantity, item.price, round2(disc, 1))]
    \o FreeAdditions(cart, free_items)

\* routers/coupons.py 122-143: items_map[pid].quantity += free_qty raises the
\* quantity of the line items_map holds for pid, the last one of that product
BxgyItems(cart, free_items) ==
    [i \in 1..Len(cart) |->
        LET item == cart[i]
            free == DictHas(free_items, item.product_id)
            qty  == IF free /\ LastLine(cart, item.product_id) = i
                    THEN item.quantity + DictGet(free_items, item.product_id)
                    ELSE item.quantity
            disc == IF free THEN DictGet(free_items, item.product_id) * item.price ELSE 0
        IN  Line(item.product_id, qty, item.price, round2(disc, 1))]
    \o FreeAdditions(cart, free_items)

NoBody == [items |-> <<>>, total_price |-> 0, total_discount |-> 0, final_price |-> 0]
NoEngine == [discount |-> 0, free_items |-> <<>>]

\* variant: total_price taken from the rewritten lines, free units included
apply_compute_merged(c, cart) ==
    LET bx == calculate_bxgy_discount(cart, c.details)
        engine ==
            IF c.type = "cart-wise"
            THEN [discount |-> calculate_cart_wise_discount(cart, c.details),
                  free_items |-> <<>>]
            ELSE IF c.type = "product-wise"
            THEN [discount |-> calculate_product_wise_discount(cart, c.details),
                  free_items |-> <<>>]
            ELSE bx
        items ==
            IF c.type = "cart-wise"
            THEN CartWiseItems(cart, 1, 0, calculate_cart_total(cart), engine.discount)
            ELSE IF c.type = "product-wise"
            THEN ProductWiseItems(cart, c.details, engine.discount)
            ELSE BxgyItems(cart, engine.free_items)
        final_total_discount == round2(engine.discount, 1)
        total_price_float    == round2(calculate_cart_total(items), 1)
    IN  IF c.type \notin {"cart-wise", "product-wise", "bxgy"}
        THEN [status |-> 400, detail |-> "Unsupported coupon type",
              body |-> NoBody, engine |-> NoEngine]
        ELSE IF cart = <<>>
        THEN [status |-> 500, detail |-> "Internal Server Error",
              body |-> NoBody, engine |-> engine]
        ELSE [status |-> 200, detail |-> "",
              body |-> [items          |-> items,
                        total_price    |-> total_price_float,
                        total_discount |-> final_total_discount,
                        final_price    |-> round2(total_price_float - final_total_discount, 1)],
              engine |-> engine]

\* routers/coupons.py 74-159 without the increment: [status, detail, body,
\* engine], engine being what the calculator returned.  round2(total_price)
\* fails on the int 0 that sum() gives for a cart with no line.
apply_compute(c, cart) ==
    LET total_price == calculate_cart_total(cart)
        bx          == calculate_bxgy_discount(cart, c.details)
        engine ==
            IF c.type = "cart-wise"
            THEN [discount |-> calculate_cart_wise_discount(cart, c.details),
                  free_items |-> <<>>]
            ELSE IF c.type = "product-wise"
            THEN [discount |-> calculate_product_wise_discount(cart, c.details),
                  free_items |-> <<>>]
            ELSE bx
        items ==
            IF c.type = "cart-wise"
            THEN CartWiseItems(cart, 1, 0, total_price, engine.discount)
            ELSE IF c.type = "product-wise"
            THEN ProductWiseItems(cart, c.details, engine.discount)
            ELSE BxgyItems(cart, engine.free_items)
        final_total_discount == round2(engine.discount, 1)
        total_price_float    == round2(total_price, 1)
    IN  IF c.type \notin {"cart-wise", "product-wise", "bxgy"}
        THEN [status |-> 400, detail |-> "Unsupported coupon type",
              body |-> NoBody, engine |-> NoEngine]
        ELSE IF cart = <<>>
        THEN [status |-> 500, detail |-> "Internal Server Error",
              body |-> NoBody, engine |-> engine]
        ELSE [status |-> 200, detail |-> "",
              body |-> [items          |-> items,
                        total_price    |-> total_price_float,
                        total_discount |-> final_total_discount,
                        final_price    |-> round2(total_price_float - final_total_discount, 1)],
              engine |-> engine]

\* ------------------------------------------------------------ coupon service
\* app/services/coupon_service.py.  The detail of the HTTPException raised,
\* "" when none is.

\* the first entry of a buy_products or get_products list that is refused
EntryError(products, bad_id, bad_quantity) ==
    IF \A i \in 1..Len(products) : products[i].product_id > 0 /\ products[i].quantity > 0
    THEN ""
    ELSE LET i == CHOOSE k \in 1..Len(products) :
                    /\ products[k].product_id <= 0 \/ products[k].quantity <= 0
                    /\ \A j \in 1..(k - 1) :
                          products[j].product_id > 0 /\ products[j].quantity > 0
         IN  IF products[i].product_id <= 0 THEN bad_id ELSE bad_quantity

_validate_coupon_details(coupon_type, details) ==
    LET bad_discount_type ==
            Has(details.discount_type)
            /\ details.discount_type[1] \notin {"percentage", "fixed"}
        buy_error == EntryError(details.buy_products[1],
                        "product_id in buy_products must be a positive integer",
                        "quantity in buy_products must be a positive integer")
        get_error == EntryError(details.get_products[1],
                        "product_id in get_products must be a positive integer",
                        "quantity in get_products must be a positive integer")
    IN
    IF coupon_type = "cart-wise" THEN
        IF ~Has(details.threshold) THEN "Missing required field 'threshold' for cart-wise coupon"
        ELSE IF details.threshold[1] <= 0 THEN "Field 'threshold' must be a positive number"
        ELSE IF ~Has(details.discount) THEN "Missing required field 'discount' for cart-wise coupon"
        ELSE IF details.discount[1] <= 0 THEN "Field 'discount' must be a positive number"
        ELSE IF bad_discount_type THEN "discount_type must be 'percentage' or 'fixed'"
        ELSE ""
    ELSE IF coupon_type = "product-wise" THEN
        IF ~Has(details.product_id) THEN "Missing required field 'product_id' for product-wise coupon"
        ELSE IF ~Has(details.discount) THEN "Missing required field 'discount' for product-wise coupon"
        ELSE IF details.product_id[1] <= 0 THEN "product_id must be a positive integer"
        ELSE IF details.discount[1] <= 0 THEN "discount must be a positive number"
        ELSE IF bad_discount_type THEN "discount_type must be 'percentage' or 'fixed'"
        ELSE ""
    ELSE IF coupon_type = "bxgy" THEN
        IF ~Has(details.buy_products) \/ Get(details.buy_products, <<>>) = <<>>
        THEN "buy_products must be a non-empty list"
        ELSE IF ~Has(details.get_products) \/ Get(details.get_products, <<>>) = <<>>
        THEN "get_products must be a non-empty list"
        ELSE IF buy_error # "" THEN buy_error
        ELSE IF get_error # "" THEN get_error
        ELSE IF Has(details.repetition_limit) /\ details.repetition_limit[1] <= 0
        THEN "repetition_limit must be a positive integer"
        ELSE ""
    ELSE "Unsupported coupon type"

\* variant: a coupon is still redeemable at the instant it expires
ensure_redeemable_lax(coupon, time) ==
    IF ~coupon.is_active THEN "Coupon is inactive"
    ELSE IF Has(coupon.expires_at) /\ coupon.expires_at[1] < time THEN "Coupon is expired"
    ELSE IF Has(coupon.max_redemptions)
            /\ coupon.times_redeemed >= coupon.max_redemptions[1]
    THEN "Coupon redemption limit reached"
    ELSE ""

\* ensure_redeemable(coupon) at the time `time`
ensure_redeemable(coupon, time) ==
    IF ~coupon.is_active THEN "Coupon is inactive"
    ELSE IF Has(coupon.expires_at) /\ coupon.expires_at[1] <= time THEN "Coupon is expired"
    ELSE IF Has(coupon.max_redemptions)
            /\ coupon.times_redeemed >= coupon.max_redemptions[1]
    THEN "Coupon redemption limit reached"
    ELSE ""

\* the row create_coupon inserts
NewCoupon(coupon_data) ==
    [type            |-> coupon_data.type,
     details         |-> coupon_data.details,
     is_active       |-> Get(coupon_data.is_active, TRUE),
     expires_at      |-> coupon_data.expires_at,
     max_redemptions |-> coupon_data.max_redemptions,
     times_redeemed  |-> 0]

\* the row update_coupon leaves, its final type and details being valid
UpdatedCoupon(db_coupon, coupon_data) ==
    [type            |-> Get(coupon_data.type, db_coupon.type),
     details         |-> Get(coupon_data.details, db_coupon.details),
     is_active       |-> Get(coupon_data.is_active, db_coupon.is_active),
     expires_at      |-> IF Has(coupon_data.expires_at)
                         THEN coupon_data.expires_at ELSE db_coupon.expires_at,
     max_redemptions |-> IF Has(coupon_data.max_redemptions)
                         THEN coupon_data.max_redemptions ELSE db_coupon.max_redemptions,
     times_redeemed  |-> db_coupon.times_redeemed]

\* variant: the redemption that reaches the limit also deactivates the coupon
Redeemed_deactivating(stored, loaded) ==
    [stored EXCEPT !.times_redeemed = loaded.times_redeemed + 1,
                   !.is_active = ~(Has(stored.max_redemptions)
                                   /\ loaded.times_redeemed + 1 >= stored.max_redemptions[1])]

\* increment_redemption(db, coupon): coupon.times_redeemed += 1 on the row object
\* the request loaded, then the commit writes that value to the stored row
Redeemed(stored, loaded) ==
    [stored EXCEPT !.times_redeemed = loaded.times_redeemed + 1]

\* variant: the redemption limit is not looked at when listing
RECURSIVE get_active_coupons_unlimited(_, _, _)
get_active_coupons_unlimited(rows, id, time) ==
    IF id > MaxCoupons + 1 THEN <<>>
    ELSE (IF id \in DOMAIN rows
             /\ rows[id].is_active
             /\ (~Has(rows[id].expires_at) \/ rows[id].expires_at[1] > time)
          THEN <<id>> ELSE <<>>)
         \o get_active_coupons_unlimited(rows, id + 1, time)

\* get_active_coupons: the ids, in order, of the rows that are redeemable
RECURSIVE get_active_coupons(_, _, _)
get_active_coupons(rows, id, time) ==
    IF id > MaxCoupons + 1 THEN <<>>
    ELSE (IF id \in DOMAIN rows
             /\ rows[id].is_active
             /\ (~Has(rows[id].expires_at) \/ rows[id].expires_at[1] > time)
             /\ (~Has(rows[id].max_redemptions)
                 \/ rows[id].times_redeemed < rows[id].max_redemptions[1])
          THEN <<id>> ELSE <<>>)
         \o get_active_coupons(rows, id + 1, time)

\* get_applicable_coupons of the router over those ids
RECURSIVE ApplicableList(_, _, _)
ApplicableList(rows, ids, cart) ==
    IF ids = <<>> THEN <<>>
    ELSE (IF is_coupon_applicable(cart, rows[ids[1]].type, rows[ids[1]].details)
          THEN <<[coupon_id |-> ids[1], type |-> rows[ids[1]].type,
                  discount  |-> calculate_discount(cart, rows[ids[1]].type,
                                                    rows[ids[1]].details)]>>
          ELSE <<>>)
         \o ApplicableList(rows, Tail(ids), cart)

\* ------------------------------------------------------------ inputs
Details(threshold, discount, discount_type, product_id, buy, get, limit) ==
    [threshold |-> threshold, discount |-> discount, discount_type |-> discount_type,
     product_id |-> product_id, buy_products |-> buy, get_products |-> get,
     repetition_limit |-> limit]
CartWise(threshold, discount, discount_type) ==
    Details(<<threshold>>, <<discount>>, discount_type, <<>>, <<>>, <<>>, <<>>)
ProductWise(product_id, discount, discount_type) ==
    Details(<<>>, <<discount>>, discount_type, <<product_id>>, <<>>, <<>>, <<>>)
BxGy(buy, get, limit) ==
    Details(<<>>, <<>>, <<>>, <<>>, <<buy>>, <<get>>, limit)
Entry(product_id, quantity) == [product_id |-> product_id, quantity |-> quantity]
Item(product_id, quantity, price) ==
    [product_id |-> product_id, quantity |-> quantity, price |-> price]
Create(type, details, is_active, expires_at, max_redemptions) ==
    [type |-> type, details |-> details, is_active |-> is_active,
     expires_at |-> expires_at, max_redemptions |-> max_redemptions]

\* amounts, in steps of 0.005: 0.03, 10 and 150 as the discount number,
\* 0.005 and 0.10 as the threshold, 0.005 and 0.05 as the unit price
Discounts == {6, 10 * Unit, 150 * Unit}
Thresholds == {1, 20}
Prices == {1, 10}
DiscountTypes == {<<>>, <<"fixed">>}
ProductIds == {1, 2}
Quantities == 1..MaxQty

\* the carts and coupons of the examples: 10 percent over 100 on
\* [(1, 2, 50), (2, 1, 100)], and buy [(1, 3), (2, 3)] get [(3, 1)] twice
ExampleCart1 == <<Item(1, 2, 50 * Unit), Item(2, 1, 100 * Unit)>>
ExampleCoupon1 == CartWise(100 * Unit, 10 * Unit, <<"percentage">>)
ExampleCart3 == <<Item(1, 6, Unit), Item(2, 6, Unit)>>
ExampleCoupon3 == BxGy(<<Entry(1, 3), Entry(2, 3)>>, <<Entry(3, 1)>>, <<2>>)

\* four lines at cent prices, three equal shares and a small last one, under
\* a fixed 0.02 over 0.005
RoundingCart ==
    <<Item(1, 1, 10 * Unit), Item(2, 1, 10 * Unit), Item(3, 1, 10 * Unit), Item(4, 1, Cent)>>
RoundingCoupon == CartWise(1, 2 * Cent, <<"fixed">>)

BuyLists == {<<Entry(1, 1)>>, <<Entry(1, 2), Entry(2, 1)>>, <<Entry(1, 1), Entry(1, 1)>>}
GetLists == {<<Entry(3, 1)>>, <<Entry(2, 1), Entry(3, 2)>>, <<Entry(2, 1), Entry(2, 2)>>}

EngineCoupons ==
    {[type |-> "cart-wise", details |-> CartWise(t, d, dt)] :
        t \in Thresholds, d \in Discounts, dt \in DiscountTypes}
    \cup {[type |-> "product-wise", details |-> ProductWise(p, d, dt)] :
        p \in {1, 2}, d \in Discounts, dt \in DiscountTypes}
    \cup {[type |-> "bxgy", details |-> BxGy(b, g, l)] :
        b \in BuyLists, g \in GetLists, l \in {<<>>, <<2>>}}
    \cup {[type |-> "cart-wise", details |-> ExampleCoupon1],
          [type |-> "bxgy", details |-> ExampleCoupon3],
          [type |-> "cart-wise", details |-> RoundingCoupon]}

Items == {Item(p, q, pr) : p \in ProductIds, q \in Quantities, pr \in Prices}
EngineCarts ==
    UNION {[1..n -> Items] : n \in 0..MaxLines} \cup {ExampleCart1, ExampleCart3, RoundingCart}

\* what the requests of the store's specifications send
ApiCW == CartWise(20, 10 * Unit, <<"percentage">>)
ApiPW == ProductWise(1, 6, <<"fixed">>)
ApiBX == BxGy(<<Entry(1, 1)>>, <<Entry(2, 1)>>, <<>>)
ApiCreates ==
    {Create("cart-wise", ApiCW, <<>>, <<1>>, <<1>>),
     Create("bxgy", ApiBX, <<FALSE>>, <<>>, <<>>),
     Create("invalid-type", ApiCW, <<>>, <<>>, <<>>)}
Update(type, details, is_active, expires_at, max_redemptions) ==
    [type |-> type, details |-> details, is_active |-> is_active,
     expires_at |-> expires_at, max_redemptions |-> max_redemptions]
ApiUpdates ==
    {Update(<<>>, <<>>, <<>>, <<>>, <<1>>),
     Update(<<"bxgy">>, <<>>, <<TRUE>>, <<>>, <<>>)}
ApiCarts == {<<Item(1, 2, 10), Item(2, 1, 10)>>}

\* ------------------------------------------------------------ state
VARIABLES
    store,      \* the coupons table: coupon id -> row
    next_id,    \* the id the next inserted row gets
    now,        \* the clock datetime.now reads
    sess,       \* per request worker: the apply request it is serving
    resp,       \* the last request answered and its response
    succeeded,  \* history: per coupon id, the apply requests answered 200
    edited      \* history: the ids whose max_redemptions an update has changed

vars == <<store, next_id, now, sess, resp, succeeded, edited>>

Workers == 1..MaxReq
CouponIds == 1..MaxCoupons

Idle == [pc |-> "idle", coupon_id |-> 0, row |-> <<>>, cart |-> <<>>, at |-> 0,
         body |-> NoBody, engine |-> NoEngine]

Response(op, status, detail, coupon_id, cart, row, at, body, engine, listing) ==
    [op |-> op, status |-> status, detail |-> detail, coupon_id |-> coupon_id,
     cart |-> cart, row |-> row, at |-> at, body |-> body, engine |-> engine,
     listing |-> listing]
Plain(op, status, detail, coupon_id) ==
    Response(op, status, detail, coupon_id, <<>>, <<>>, 0, NoBody, NoEngine, <<>>)

Quiescent == \A p \in Workers : sess[p].pc = "idle"

Init ==
    /\ store = <<>>
    /\ next_id = 1
    /\ now = 0
    /\ sess = [p \in Workers |-> Idle]
    /\ resp = Plain("none", 0, "", 0)
    /\ succeeded = [id \in CouponIds |-> 0]
    /\ edited = {}

\* POST /coupons
create_coupon(coupon_data) ==
    /\ next_id <= MaxCoupons
    /\ LET err == _validate_coupon_details(coupon_data.type, coupon_data.details)
       IN  IF err # ""
           THEN /\ resp' = Plain("create", 400, err, 0)
                /\ UNCHANGED <<store, next_id>>
           ELSE /\ store' = store @@ (next_id :> NewCoupon(coupon_data))
                /\ next_id' = next_id + 1
                /\ resp' = Plain("create", 201, "", next_id)
    /\ UNCHANGED <<now, sess, succeeded, edited>>

\* PUT /coupons/{coupon_id}
update_coupon(coupon_id, coupon_data) ==
    /\ IF coupon_id \notin DOMAIN store
       THEN /\ resp' = Plain("update", 404, "Coupon not found", coupon_id)
            /\ UNCHANGED <<store, edited>>
       ELSE LET final == UpdatedCoupon(store[coupon_id], coupon_data)
                err   == _validate_coupon_details(final.type, final.details)
            IN  IF err # ""
                THEN /\ resp' = Plain("update", 400, err, coupon_id)
                     /\ UNCHANGED <<store, edited>>
                ELSE /\ store' = [store EXCEPT ![coupon_id] = final]
                     /\ edited' = IF final.max_redemptions # store[coupon_id].max_redemptions
                                  THEN edited \cup {coupon_id} ELSE edited
                     /\ resp' = Plain("update", 200, "", coupon_id)
    /\ UNCHANGED <<next_id, now, sess, succeeded>>

\* DELETE /coupons/{coupon_id}
delete_coupon(coupon_id) ==
    /\ IF coupon_id \notin DOMAIN store
       THEN /\ resp' = Plain("delete", 404, "Coupon not found", coupon_id)
            /\ UNCHANGED store
       ELSE /\ store' = [id \in DOMAIN store \ {coupon_id} |-> store[id]]
            /\ resp' = Plain("delete", 204, "", coupon_id)
    /\ UNCHANGED <<next_id, now, sess, succeeded, edited>>

\* POST /applicable-coupons
get_applicable_coupons(cart) ==
    /\ resp' = Response("applicable", 200, "", 0, cart, <<>>, 0, NoBody, NoEngine,
                        ApplicableList(store, get_active_coupons(store, 1, now), cart))
    /\ UNCHANGED <<store, next_id, now, sess, succeeded, edited>>

\* POST /apply-coupon/{coupon_id}, lines 66-149: the row is read, the gate and
\* the computation run on it; a request that got through holds its response
\* until increment_redemption
apply_coupon(p, coupon_id, cart) ==
    /\ sess[p].pc = "idle"
    /\ IF coupon_id \notin DOMAIN store
       THEN /\ resp' = Response("apply", 404, "Coupon not found", coupon_id, cart, <<>>,
                                now, NoBody, NoEngine, <<>>)
            /\ UNCHANGED sess
       ELSE LET c    == store[coupon_id]
                gate == ensure_redeemable(c, now)
                out  == apply_compute(c, cart)
            IN  IF gate # ""
                THEN /\ resp' = Response("apply", 400, gate, coupon_id, cart, <<c>>,
                                         now, NoBody, NoEngine, <<>>)
                     /\ UNCHANGED sess
                ELSE /\ c.times_redeemed < MaxRedeem
                     /\ IF out.status # 200
                        THEN /\ resp' = Response("apply", out.status, out.detail, coupon_id,
                                                 cart, <<c>>, now, NoBody, out.engine, <<>>)
                             /\ UNCHANGED sess
                        ELSE /\ sess' = [sess EXCEPT ![p] =
                                    [pc |-> "computed", coupon_id |-> coupon_id,
                                     row |-> <<c>>, cart |-> cart, at |-> now,
                                     body |-> out.body, engine |-> out.engine]]
                             /\ UNCHANGED resp
    /\ UNCHANGED <<store, next_id, now, succeeded, edited>>

\* lines 151-159: the UPDATE of times_redeemed and the response.  The UPDATE
\* of a row deleted meanwhile matches nothing and the request fails.
increment_redemption(p) ==
    /\ sess[p].pc = "computed"
    /\ LET s == sess[p]
       IN  IF s.coupon_id \notin DOMAIN store
           THEN /\ resp' = Response("apply", 500, "Internal Server Error", s.coupon_id,
                                    s.cart, s.row, s.at, NoBody, s.engine, <<>>)
                /\ UNCHANGED <<store, succeeded>>
           ELSE /\ store' = [store EXCEPT ![s.coupon_id] = Redeemed(@, s.row[1])]
                /\ succeeded' = [succeeded EXCEPT ![s.coupon_id] = @ + 1]
                /\ resp' = Response("apply", 200, "", s.coupon_id, s.cart, s.row, s.at,
                                    s.body, s.engine, <<>>)
    /\ sess' = [sess EXCEPT ![p] = Idle]
    /\ UNCHANGED <<next_id, now, edited>>

Tick ==
    /\ now < MaxTime
    /\ now' = now + 1
    /\ UNCHANGED <<store, next_id, sess, resp, succeeded, edited>>

\* each request run to completion before the next starts
NextSeq ==
    \/ Quiescent /\ \E d \in ApiCreates : create_coupon(d)
    \/ Quiescent /\ \E id \in CouponIds, u \in ApiUpdates : update_coupon(id, u)
    \/ Quiescent /\ \E id \in CouponIds : delete_coupon(id)
    \/ Quiescent /\ \E cart \in ApiCarts : get_applicable_coupons(cart)
    \/ Quiescent /\ \E id \in CouponIds, cart \in ApiCarts : apply_coupon(1, id, cart)
    \/ increment_redemption(1)
    \/ Quiescent /\ Tick

SpecSeq == Init /\ [][NextSeq]_vars

\* requests served concurrently, one worker each (the handlers are sync
\* functions, which the framework runs on a thread pool, each with its own
\* database session)
ConcCreates ==
    {Create("cart-wise", ApiCW, <<>>, <<>>, <<1>>),
     Create("product-wise", ApiPW, <<>>, <<>>, <<>>)}
ConcUpdates == {Update(<<>>, <<>>, <<>>, <<>>, <<1>>)}
ConcCarts == {<<Item(1, 2, 10), Item(2, 1, 10)>>}

Next ==
    \/ \E d \in ConcCreates : create_coupon(d)
    \/ \E id \in CouponIds, u \in ConcUpdates : update_coupon(id, u)
    \/ \E id \in CouponIds : delete_coupon(id)
    \/ \E cart \in ConcCarts : get_applicable_coupons(cart)
    \/ \E p \in Workers, id \in CouponIds, cart \in ConcCarts : apply_coupon(p, id, cart)
    \/ \E p \in Workers : increment_redemption(p)
    \/ Tick

Spec == Init /\ [][Next]_vars

\* the engine: one stored coupon that passed creation, one apply request
InitEngine ==
    /\ \E c \in EngineCoupons :
          /\ _validate_coupon_details(c.type, c.details) = ""
          /\ store = (1 :> NewCoupon(Create(c.type, c.details, <<>>, <<>>, <<>>)))
    /\ next_id = 2
    /\ now = 0
    /\ sess = [p \in Workers |-> Idle]
    /\ resp = Plain("none", 0, "", 0)
    /\ succeeded = [id \in CouponIds |-> 0]
    /\ edited = {}

NextEngine ==
    \/ \E cart \in EngineCarts : resp.op = "none" /\ Quiescent /\ apply_coupon(1, 1, cart)
    \/ increment_redemption(1)

SpecEngine == InitEngine /\ [][NextEngine]_vars

\* the listing: a coupons table of one to MaxCoupons rows, each redeemable or
\* failing one condition of redeemability, read at any time by one
\* POST /applicable-coupons
ListCoupons ==
    {[type |-> "cart-wise", details |-> ApiCW],
     [type |-> "product-wise", details |-> ApiPW],
     [type |-> "bxgy", details |-> ApiBX]}
ListRows ==
    {[NewCoupon(Create(c.type, c.details, a[1], a[2], a[3])) EXCEPT !.times_redeemed = a[4]] :
        c \in ListCoupons,
        a \in {<<<<>>, <<>>, <<>>, 0>>, <<<<FALSE>>, <<>>, <<>>, 0>>,
               <<<<>>, <<1>>, <<>>, 0>>, <<<<>>, <<>>, <<1>>, 0>>,
               <<<<>>, <<>>, <<1>>, 1>>}}
ListCarts == {<<Item(1, 2, 10), Item(2, 1, 10)>>, <<Item(2, 1, 10)>>, <<>>}

InitList ==
    /\ \E n \in 1..MaxCoupons :
          /\ store \in [1..n -> ListRows]
          /\ next_id = n + 1
    /\ now \in 0..MaxTime
    /\ sess = [p \in Workers |-> Idle]
    /\ resp = Plain("none", 0, "", 0)
    /\ succeeded = [id \in CouponIds |-> 0]
    /\ edited = {}

NextList == \E cart \in ListCarts : resp.op = "none" /\ get_applicable_coupons(cart)

SpecList == InitList /\ [][NextList]_vars

\* validation: create and update requests over well-formed and malformed
\* coupon definitions (a field left out, a non-positive number, an unknown
\* discount_type or type, an empty list, a bad entry, a non-positive
\* repetition_limit)
ValidateDetails ==
    {CartWise(20, 10 * Unit, <<"percentage">>),
     CartWise(20, 10 * Unit, <<>>),
     CartWise(20, 10 * Unit, <<"bogus">>),
     CartWise(0, 10 * Unit, <<"fixed">>),
     CartWise(20, 0, <<"fixed">>),
     Details(<<>>, <<10 * Unit>>, <<"fixed">>, <<>>, <<>>, <<>>, <<>>),
     Details(<<20>>, <<>>, <<"fixed">>, <<>>, <<>>, <<>>, <<>>),
     ProductWise(1, 6, <<"fixed">>),
     ProductWise(1, 6, <<>>),
     ProductWise(1, 6, <<"bogus">>),
     ProductWise(0, 6, <<"fixed">>),
     ProductWise(1, 0, <<"percentage">>),
     BxGy(<<Entry(1, 1)>>, <<Entry(2, 1)>>, <<>>),
     BxGy(<<Entry(1, 1)>>, <<Entry(2, 1)>>, <<0>>),
     BxGy(<<>>, <<Entry(2, 1)>>, <<1>>),
     BxGy(<<Entry(1, 1)>>, <<>>, <<1>>),
     BxGy(<<Entry(1, 0)>>, <<Entry(2, 1)>>, <<1>>),
     BxGy(<<Entry(1, 1)>>, <<Entry(0, 1)>>, <<1>>),
     Details(<<>>, <<>>, <<>>, <<>>, <<>>, <<<<Entry(2, 1)>>>>, <<>>)}
ValidateTypes == {"cart-wise", "product-wise", "bxgy", "invalid-type"}
ValidateCreates ==
    {Create(t, d, <<>>, <<>>, <<>>) : t \in ValidateTypes, d \in ValidateDetails}
ValidateUpdates ==
    {Update(<<>>, <<d>>, <<>>, <<>>, <<>>) : d \in ValidateDetails}
    \cup {Update(<<t>>, <<>>, <<>>, <<>>, <<>>) : t \in ValidateTypes}
    \cup {Update(<<>>, <<>>, <<FALSE>>, <<>>, <<>>)}

NextValidate ==
    \/ \E d \in ValidateCreates : create_coupon(d)
    \/ \E id \in CouponIds, u \in ValidateUpdates : update_coupon(id, u)

SpecValidate == Init /\ [][NextValidate]_vars

\* ------------------------------------------------------------ claims
Applied == resp.op = "apply" /\ resp.status = 200
AppliedType(type) == Applied /\ resp.row[1].type = type

DistinctIds(cart) ==
    \A i, j \in 1..Len(cart) : i # j => cart[i].product_id # cart[j].product_id

RECURSIVE SumDiscounts(_)
SumDiscounts(items) ==
    IF items = <<>> THEN 0 ELSE items[1].total_discount + SumDiscounts(Tail(items))

\* C1: for a cart of pairwise distinct product_ids and any coupon variant, the
\* allocated discounts of the lines returned by a successful apply sum to the
\* returned total_discount.
C1_Reconciliation ==
    (Applied /\ DistinctIds(resp.cart))
        => SumDiscounts(resp.body.items) = resp.body.total_discount

\* C2: with requests run one after the other, every stored coupon whose
\* max_redemptions is set has times_redeemed <= max_redemptions.
C2_RedeemedWithinLimit ==
    \A id \in DOMAIN store :
        Has(store[id].max_redemptions)
            => store[id].times_redeemed <= store[id].max_redemptions[1]

\* C3: with apply requests served concurrently, the apply requests that
\* succeed on a coupon never outnumber its max_redemptions (stated for the
\* coupons whose max_redemptions no update has changed since creation).
C3_NoOverRedemption ==
    \A id \in DOMAIN store :
        (Has(store[id].max_redemptions) /\ id \notin edited)
            => succeeded[id] <= store[id].max_redemptions[1]

\* C4: the stored times_redeemed of a coupon is its initial value, 0, plus the
\* number of apply requests on it that returned success.
C4_CounterCountsSuccesses ==
    \A id \in DOMAIN store : store[id].times_redeemed = succeeded[id]

Redeemable(c, time) ==
    /\ c.is_active
    /\ ~Has(c.expires_at) \/ c.expires_at[1] > time
    /\ ~Has(c.max_redemptions) \/ c.times_redeemed < c.max_redemptions[1]

GateRejected ==
    /\ resp.op = "apply"
    /\ resp.status = 400
    /\ resp.detail \in {"Coupon is inactive", "Coupon is expired",
                        "Coupon redemption limit reached"}

\* C5: an apply on an existing coupon passes the redeemability gate exactly
\* when the coupon read is active, not expired at the time of the request and
\* under its redemption limit; otherwise the response is a 400 whose detail
\* names a cause that holds, and nothing was computed.
C5_Gate ==
    (resp.op = "apply" /\ resp.status # 404) =>
        LET c == resp.row[1]
        IN  /\ GateRejected <=> ~Redeemable(c, resp.at)
            /\ GateRejected =>
                /\ resp.detail = "Coupon is inactive" => ~c.is_active
                /\ resp.detail = "Coupon is expired"
                      => Has(c.expires_at) /\ c.expires_at[1] <= resp.at
                /\ resp.detail = "Coupon redemption limit reached"
                      => /\ Has(c.max_redemptions)
                         /\ c.times_redeemed >= c.max_redemptions[1]
                /\ resp.body = NoBody
                /\ resp.engine = NoEngine

C5_Witness ==
    /\ GateRejected
    /\ resp.detail = "Coupon redemption limit reached"
    /\ resp.row[1].times_redeemed > 0

SameButRedeemed(old, new) == new = [old EXCEPT !.times_redeemed = new.times_redeemed]

\* C6: listing the applicable coupons and every step of an apply leave the
\* table's rows in place with their type, details, is_active, expires_at and
\* max_redemptions; only the coupon applied may change its times_redeemed,
\* and only when the apply succeeds.
C6_Frame ==
    [][/\ (\E cart \in ApiCarts : get_applicable_coupons(cart)) => store' = store
       /\ \A p \in Workers :
            /\ (\E id \in CouponIds, cart \in ApiCarts : apply_coupon(p, id, cart))
                  => store' = store
            /\ increment_redemption(p) =>
                  /\ DOMAIN store' = DOMAIN store
                  /\ \A id \in DOMAIN store :
                        /\ SameButRedeemed(store[id], store'[id])
                        /\ id # sess[p].coupon_id => store'[id] = store[id]
                  /\ resp'.status # 200 => store' = store]_vars

C6_Witness ==
    /\ Applied
    /\ \E id \in DOMAIN store :
          /\ id # resp.coupon_id
          /\ store[id].times_redeemed = 0
          /\ Has(store[id].expires_at) /\ store[id].expires_at[1] <= now
          /\ store[id].is_active

RECURSIVE CartTotal(_)
CartTotal(cart) ==
    IF Len(cart) = 0 THEN 0
    ELSE CartTotal(SubSeq(cart, 1, Len(cart) - 1))
         + cart[Len(cart)].quantity * cart[Len(cart)].price

IsFixed(details) == details.discount_type = <<"fixed">>

\* C7: the discount of a cart-wise coupon is 0 under the threshold, else
\* round2(total * discount / 100) for a percentage (the default when
\* discount_type is omitted) and min(round2(discount), total) for a fixed
\* amount, which so never exceeds the cart total; 10 percent over 100 on
\* [(1, 2, 50), (2, 1, 100)] gives total_discount 20.00.
C7_CartWise ==
    AppliedType("cart-wise") =>
        LET d        == resp.row[1].details
            total    == CartTotal(resp.cart)
            expected == IF total < d.threshold[1] THEN 0
                        ELSE IF IsFixed(d) THEN Min(round2(d.discount[1], 1), total)
                        ELSE round2(total * d.discount[1], 100 * Unit)
        IN  /\ resp.engine.discount = expected
            /\ IsFixed(d) => resp.engine.discount <= total
            /\ resp.body.total_discount = round2(expected, 1)
            /\ (resp.cart = ExampleCart1 /\ d = ExampleCoupon1)
                  => resp.body.total_discount = 20 * Unit

C7_Witness ==
    /\ AppliedType("cart-wise")
    /\ resp.cart = ExampleCart1
    /\ resp.row[1].details = ExampleCoupon1
    /\ resp.body.total_discount = 20 * Unit
    /\ resp.body.final_price = 180 * Unit

\* C8: for a product-wise coupon (stated for carts of distinct product_ids):
\* with the target product absent the total discount and every allocation are
\* 0; with it present the total discount is round2(subtotal * discount / 100)
\* or min(round2(discount), subtotal), the target line is allocated that total
\* discount and every other line 0.
C8_ProductWise ==
    (AppliedType("product-wise") /\ DistinctIds(resp.cart)) =>
        LET d      == resp.row[1].details
            cart   == resp.cart
            items  == resp.body.items
            target == {i \in 1..Len(cart) : cart[i].product_id = d.product_id[1]}
        IN  /\ Len(items) = Len(cart)
            /\ target = {} =>
                  /\ resp.body.total_discount = 0
                  /\ \A i \in 1..Len(items) : items[i].total_discount = 0
            /\ \A t \in target :
                  LET subtotal == cart[t].quantity * cart[t].price
                      expected == IF IsFixed(d) THEN Min(round2(d.discount[1], 1), subtotal)
                                  ELSE round2(subtotal * d.discount[1], 100 * Unit)
                  IN  /\ resp.engine.discount = expected
                      /\ items[t].total_discount = resp.body.total_discount
                      /\ \A i \in 1..Len(items) : i # t => items[i].total_discount = 0

QuantityInCart(cart, product_id) ==
    IF \E i \in 1..Len(cart) : cart[i].product_id = product_id
    THEN cart[CHOOSE i \in 1..Len(cart) : cart[i].product_id = product_id].quantity
    ELSE 0

RECURSIVE SumRequired(_)
SumRequired(buy) ==
    IF Len(buy) = 0 THEN 0 ELSE buy[1].quantity + SumRequired(Tail(buy))

RECURSIVE SumPresent(_, _)
SumPresent(cart, buy) ==
    IF Len(buy) = 0 THEN 0
    ELSE QuantityInCart(cart, buy[1].product_id) + SumPresent(cart, Tail(buy))

\* C9: for a bxgy coupon (stated for carts of distinct product_ids), with P
\* the cart quantities of the buy products summed and R the required buy
\* quantities summed, times_applicable = min(floor(P / R), repetition_limit):
\* every get product is granted its per-application quantity
\* * times_applicable, and nothing is granted and the discount is 0 when
\* P < R.
C9_Bxgy ==
    (AppliedType("bxgy") /\ DistinctIds(resp.cart)) =>
        LET d     == resp.row[1].details
            get   == d.get_products[1]
            free  == resp.engine.free_items
            P     == SumPresent(resp.cart, d.buy_products[1])
            R     == SumRequired(d.buy_products[1])
            times == Min(P \div R, Get(d.repetition_limit, 1))
        IN  /\ times <= Get(d.repetition_limit, 1)
            /\ \A k \in 1..Len(free) :
                  \E i \in 1..Len(get) : get[i].product_id = free[k].product_id
            /\ times > 0 =>
                  \A i \in 1..Len(get) :
                      /\ DictHas(free, get[i].product_id)
                      /\ DictGet(free, get[i].product_id) = get[i].quantity * times
            /\ P < R => free = <<>> /\ resp.engine.discount = 0

\* the lines appended after the cart's own, and for one product among them
Appended(cart, items) == {i \in 1..Len(items) : i > Len(cart)}
AppendedFor(cart, items, product_id) ==
    {i \in Appended(cart, items) : items[i].product_id = product_id}

InCart(cart, product_id) == \E i \in 1..Len(cart) : cart[i].product_id = product_id

C11_Totals ==
    Applied =>
        /\ resp.body.total_price = round2(CartTotal(resp.cart), 1)
        /\ resp.body.total_discount = round2(resp.engine.discount, 1)
        /\ resp.body.final_price =
              round2(resp.body.total_price - resp.body.total_discount, 1)

\* a bxgy apply that merged free units into a line of the cart and granted a
\* discount: the rewritten lines are worth more than the submitted ones
C11_Witness ==
    /\ AppliedType("bxgy")
    /\ resp.body.total_discount > 0
    /\ resp.body.final_price >= 0
    /\ CartTotal(resp.body.items) > CartTotal(resp.cart)
    /\ resp.body.total_price = round2(CartTotal(resp.cart), 1)
    /\ resp.body.final_price = resp.body.total_price - resp.body.total_discount

ListedCount(listing, id) ==
    Cardinality({k \in 1..Len(listing) : listing[k].coupon_id = id})

\* C12: list_applicable returns exactly one entry for each stored coupon that
\* is redeemable and applicable to the cart, none for any other coupon, and
\* each entry carries the coupon's type and compute_discount(cart, coupon); a
\* coupon is listed exactly when an apply at the same instant would pass the
\* redeemability gate and the coupon is applicable.
C12_Listing ==
    resp.op = "applicable" =>
        /\ \A id \in DOMAIN store :
              LET c          == store[id]
                  applicable == is_coupon_applicable(resp.cart, c.type, c.details)
              IN  /\ ListedCount(resp.listing, id) =
                        (IF Redeemable(c, now) /\ applicable THEN 1 ELSE 0)
                  /\ ListedCount(resp.listing, id) = 1
                        <=> (ensure_redeemable(c, now) = "" /\ applicable)
        /\ \A k \in 1..Len(resp.listing) :
              LET e == resp.listing[k]
              IN  /\ e.coupon_id \in DOMAIN store
                  /\ e.type = store[e.coupon_id].type
                  /\ e.discount = calculate_discount(resp.cart, e.type,
                                                     store[e.coupon_id].details)

\* a listing that holds one coupon and leaves out another that is applicable
\* to the cart but has used up its redemptions
C12_Witness ==
    /\ resp.op = "applicable"
    /\ Len(resp.listing) = 1
    /\ resp.listing[1].discount > 0
    /\ \E id \in DOMAIN store :
          /\ ListedCount(resp.listing, id) = 0
          /\ is_coupon_applicable(resp.cart, store[id].type, store[id].details)
          /\ store[id].is_active
          /\ Has(store[id].max_redemptions)
          /\ store[id].times_redeemed >= store[id].max_redemptions[1]

WellFormedEntries(entries) ==
    /\ entries # <<>>
    /\ \A i \in 1..Len(entries) : entries[i].product_id > 0 /\ entries[i].quantity > 0

PositiveField(opt) == Has(opt) /\ opt[1] > 0

KnownDiscountType(opt) == Has(opt) /\ opt[1] \in {"percentage", "fixed"}

\* a coupon definition of an unknown type, or one that lacks a required field
\* (discount_type among them), holds a non-positive number where a positive
\* one is required, names an unknown discount_type, has an empty buy or get
\* list or a bad entry in one, or a non-positive repetition_limit
Malformed(type, details) ==
    IF type = "cart-wise"
    THEN ~(/\ PositiveField(details.threshold)
           /\ PositiveField(details.discount)
           /\ KnownDiscountType(details.discount_type))
    ELSE IF type = "product-wise"
    THEN ~(/\ PositiveField(details.product_id)
           /\ PositiveField(details.discount)
           /\ KnownDiscountType(details.discount_type))
    ELSE IF type = "bxgy"
    THEN ~(/\ Has(details.buy_products)
           /\ WellFormedEntries(Get(details.buy_products, <<>>))
           /\ Has(details.get_products)
           /\ WellFormedEntries(Get(details.get_products, <<>>))
           /\ (Has(details.repetition_limit) => details.repetition_limit[1] > 0))
    ELSE TRUE

\* C13: a create or update request whose resulting coupon definition is of an
\* unknown type or malformed is answered 400 and leaves the coupon store
\* unchanged.
C13_MalformedRejected ==
    [][/\ \A d \in ValidateCreates :
              (create_coupon(d) /\ Malformed(d.type, d.details))
                  => (resp'.status = 400 /\ store' = store)
       /\ \A id \in CouponIds, u \in ValidateUpdates :
              (/\ id \in DOMAIN store
               /\ update_coupon(id, u)
               /\ Malformed(UpdatedCoupon(store[id], u).type,
                            UpdatedCoupon(store[id], u).details))
                  => (resp'.status = 400 /\ store' = store)]_vars

\* C14: for a cart in which a product_id is on more than one line and any
\* coupon variant, the allocated discounts of the lines returned by a
\* successful apply sum to the returned total_discount.
C14_ReconciliationDuplicates ==
    (Applied /\ ~DistinctIds(resp.cart))
        => SumDiscounts(resp.body.items) = resp.body.total_discount

\* C15: a successful apply of a coupon that passed creation validation to a
\* cart of positive quantities and prices returns total_discount <=
\* total_price and a final_price that is not negative, for every variant.
C15_DiscountWithinTotal ==
    Applied =>
        /\ resp.body.total_discount <= resp.body.total_price
        /\ resp.body.final_price >= 0

\* C16: for a cart-wise apply on a cart of distinct product_ids, the
\* allocated discount of every line, the last one included, is at least 0
\* and at most the line's subtotal quantity * unit price.
C16_AllocationWithinLine ==
    (AppliedType("cart-wise") /\ DistinctIds(resp.cart)) =>
        \A i \in 1..Len(resp.body.items) :
            /\ resp.body.items[i].total_discount >= 0
            /\ resp.body.items[i].total_discount
                  <= resp.cart[i].quantity * resp.cart[i].price

\* C17: every apply that passes the redeemability gate is answered 200 and
\* raises the coupon's times_redeemed by 1, whether or not the coupon is
\* applicable to the cart; when it is not, the updated cart has
\* total_discount 0 and every line allocated 0.
C17_AppliesWhenInapplicable ==
    (/\ resp.op = "apply"
     /\ resp.row # <<>>
     /\ Redeemable(resp.row[1], resp.at)) =>
        /\ resp.status = 200
        /\ resp.coupon_id \in DOMAIN store
        /\ store[resp.coupon_id].times_redeemed = resp.row[1].times_redeemed + 1
        /\ ~is_coupon_applicable(resp.cart, resp.row[1].type, resp.row[1].details) =>
              /\ resp.body.total_discount = 0
              /\ Len(resp.body.items) = Len(resp.cart)
              /\ \A i \in 1..Len(resp.body.items) : resp.body.items[i].total_discount = 0

====
